---- MODULE Spec2Model ----
(***************************************************************************)
(* PrivValidatorFS (tendermint/types/priv_validator.go): the validator's   *)
(* double-signing guard.  The in-memory struct, the persisted file, the    *)
(* mutex and each calling goroutine's position in the method it runs.      *)
(* Methods are split at every statement that reads or writes a field of    *)
(* the struct, the mutex or the file, so that the accesses Reset and       *)
(* ModifyLastHeight make outside the mutex interleave as the Go scheduler  *)
(* lets them.                                                              *)
(***************************************************************************)
EXTENDS Integers, FiniteSets, Sequences, TLC

VARIABLES
    pv,      \* the PrivValidatorFS struct in memory
    file,    \* the JSON document at filePath
    mtx,     \* pv.mtx: the goroutine holding it, or Free
    pc,      \* per goroutine: the statement it executes next
    req,     \* per goroutine: arguments and locals of the call in progress
    proc,    \* "running", or why the process is down
    signer,  \* the Signer backend's own record of its invocations
    audit    \* what a run records besides the program's state: "signer" (the
             \* backend's record), "calls" (what each call found on entry)

vars == <<pv, file, mtx, pc, req, proc, signer, audit>>

(* ------------------------------ bounds -------------------------------- *)
MaxHeight == 2
MaxRound == 1
MaxCalls == 2

Threads == {"g1", "g2"}
Heights == 1..MaxHeight
Rounds == 0..MaxRound
Blocks == {"A", "B"}
Times == {"10:00", "10:01"}
Free == "free"

(* ---------------------------- constants ------------------------------- *)
stepNone == 0
stepPropose == 1
stepPrevote == 2
stepPrecommit == 3

VoteTypes == {"prevote", "precommit"}

\* a vote type that is neither: the zero value of an unset Vote
UnknownVoteType == "unknown"

\* what voteToStep yields where it panics: cmn.PanicSanity("Unknown vote type")
PanicSanity == -1

voteToStep(type) ==
    CASE type = "prevote" -> stepPrevote
      [] type = "precommit" -> stepPrecommit
      [] OTHER -> PanicSanity

(* ------------------------- messages and bytes ------------------------- *)
Votes == [Height : Heights, Round : Rounds, Type : VoteTypes,
          BlockID : Blocks, Timestamp : Times]

\* votes of an unknown type
BadVotes == [Height : {1}, Round : {0}, Type : {UnknownVoteType},
             BlockID : {"A"}, Timestamp : {"10:00"}]
Proposals == [Height : Heights, Round : Rounds, BlockID : Blocks, Timestamp : Times]
Heartbeats == [Height : Heights, Round : {0}]

\* []byte(nil)
NilBytes == [kind |-> "nil", height |-> 0, round |-> 0, type |-> "",
             block |-> "", ts |-> ""]

\* The canonical JSON of a vote: {"chain_id":..,"vote":{block_id,height,round,timestamp,type}}
SignBytesVote(vote) ==
    [kind |-> "vote", height |-> vote.Height, round |-> vote.Round,
     type |-> vote.Type, block |-> vote.BlockID, ts |-> vote.Timestamp]

\* The canonical JSON of a proposal: {"chain_id":..,"proposal":{...}}
SignBytesProposal(proposal) ==
    [kind |-> "proposal", height |-> proposal.Height, round |-> proposal.Round,
     type |-> "", block |-> proposal.BlockID, ts |-> proposal.Timestamp]

SignBytesHeartbeat(heartbeat) ==
    [kind |-> "heartbeat", height |-> heartbeat.Height, round |-> heartbeat.Round,
     type |-> "", block |-> "", ts |-> ""]

\* json.Unmarshal into CanonicalJSONOnceVote / CanonicalJSONOnceProposal: the
\* fields under the document's "vote" ("proposal") key; a document without that
\* key leaves the struct zero-valued; nil input is a syntax error.
UnmarshalCanonical(kind, b) ==
    IF b.kind = kind
    THEN [ok |-> TRUE, height |-> b.height, round |-> b.round, type |-> b.type,
          block |-> b.block, ts |-> b.ts]
    ELSE [ok |-> b.kind # "nil", height |-> 0, round |-> 0, type |-> "",
          block |-> "", ts |-> ""]

\* json.Marshal of the decoded struct with its timestamp overwritten by `now`
MarshalWithTime(kind, m, now) ==
    [kind |-> kind, height |-> m.height, round |-> m.round, type |-> m.type,
     block |-> m.block, ts |-> now]

\* compares height, round and type only: the block is ignored
checkIgnoresBlock(kind, lastSignBytes, newSignBytes) ==
    LET last == UnmarshalCanonical(kind, lastSignBytes)
        new == UnmarshalCanonical(kind, newSignBytes)
    IN  IF ~last.ok \/ ~new.ok THEN "panic"
        ELSE IF last.height = new.height /\ last.round = new.round
                /\ last.type = new.type
             THEN "true" ELSE "false"

\* the timestamps are not overwritten before the comparison
checkKeepsTimestamps(kind, lastSignBytes, newSignBytes) ==
    LET last == UnmarshalCanonical(kind, lastSignBytes)
        new == UnmarshalCanonical(kind, newSignBytes)
    IN  IF ~last.ok \/ ~new.ok THEN "panic"
        ELSE IF MarshalWithTime(kind, new, new.ts) = MarshalWithTime(kind, last, last.ts)
             THEN "true" ELSE "false"

\* checkVotesOnlyDifferByTimestamp / checkProposalsOnlyDifferByTimestamp:
\* "panic" when either input cannot be unmarshalled, else whether the two
\* re-encodings with equal timestamps are byte-equal.
checkOnlyDifferByTimestamp(kind, lastSignBytes, newSignBytes) ==
    LET last == UnmarshalCanonical(kind, lastSignBytes)
        new == UnmarshalCanonical(kind, newSignBytes)
    IN  IF ~last.ok \/ ~new.ok THEN "panic"
        ELSE IF MarshalWithTime(kind, new, "now") = MarshalWithTime(kind, last, "now")
             THEN "true" ELSE "false"

(* ----------------------------- signatures ----------------------------- *)
Key == "priv0"
EmptyKey == ""

\* crypto.Signature{}
EmptySig == [key |-> "", msg |-> NilBytes]

\* DefaultSigner.Sign: the signature of msg under the signer's key
Sign(key, msg) == [key |-> key, msg |-> msg]

(* --------------------- the struct and its file ------------------------ *)
\* GenPrivValidatorFS: a fresh validator (no Save yet)
GenPrivValidatorFS ==
    [LastHeight |-> 0, LastRound |-> 0, LastStep |-> stepNone,
     LastSignature |-> EmptySig, LastSignBytes |-> NilBytes,
     PrivKey |-> Key, oldPrivKey |-> Key]

\* the struct's memory once the process is gone
ZeroPV ==
    [LastHeight |-> 0, LastRound |-> 0, LastStep |-> 0,
     LastSignature |-> EmptySig, LastSignBytes |-> NilBytes,
     PrivKey |-> EmptyKey, oldPrivKey |-> EmptyKey]

\* the live key is written, whatever key was provisioned
MarshalJSONLiveKey(p) ==
    [last_height |-> p.LastHeight, last_round |-> p.LastRound,
     last_step |-> p.LastStep, last_signature |-> p.LastSignature,
     last_signbytes |-> p.LastSignBytes, priv_key |-> p.PrivKey]

\* save: the copy bakPrivVal with the provisioned key put back, as JSON
MarshalJSON(p) ==
    [last_height |-> p.LastHeight, last_round |-> p.LastRound,
     last_step |-> p.LastStep, last_signature |-> p.LastSignature,
     last_signbytes |-> p.LastSignBytes,
     priv_key |-> IF p.oldPrivKey # EmptyKey THEN p.oldPrivKey ELSE p.PrivKey]

\* LoadPrivValidatorFSWithSigner: json.Unmarshal, then oldPrivKey = PrivKey
LoadPrivValidatorFS(f) ==
    [LastHeight |-> f.last_height, LastRound |-> f.last_round,
     LastStep |-> f.last_step, LastSignature |-> f.last_signature,
     LastSignBytes |-> f.last_signbytes,
     PrivKey |-> f.priv_key, oldPrivKey |-> f.priv_key]

\* a new validator is generated, and saved over the file, whether the file
\* exists or not
LoadOrGenAlwaysGenerates(exists, f) ==
    [pv |-> GenPrivValidatorFS, file |-> MarshalJSON(GenPrivValidatorFS)]

\* LoadOrGenPrivValidatorFS: the validator it returns and the file it leaves,
\* given whether os.Stat finds the file and what the file holds
LoadOrGenPrivValidatorFS(exists, f) ==
    IF exists
    THEN [pv |-> LoadPrivValidatorFS(f), file |-> f]
    ELSE [pv |-> GenPrivValidatorFS, file |-> MarshalJSON(GenPrivValidatorFS)]

HRS(p) == <<p.LastHeight, p.LastRound, p.LastStep>>
ReqHRS(r) == <<r.height, r.round, r.step>>
BytesHRS(b) == <<b.height, b.round,
                 IF b.kind = "proposal" THEN stepPropose
                 ELSE IF b.kind = "vote" THEN voteToStep(b.type)
                 ELSE stepNone>>

\* lexicographic order on (height, round, step)
HRSLess(a, b) ==
    \/ a[1] < b[1]
    \/ a[1] = b[1] /\ a[2] < b[2]
    \/ a[1] = b[1] /\ a[2] = b[2] /\ a[3] < b[3]
HRSLeq(a, b) == a = b \/ HRSLess(a, b)

(* ------------------------- goroutines' locals ------------------------- *)
NoErr == ""
ErrHeight == "Height regression"
ErrRound == "Round regression"
ErrStep == "Step regression"
ErrNoLast == "No LastSignature found"
ErrConflict == "Conflicting data"
ErrSigner == "signer error"

SignOps == {"SignVote", "SignProposal"}

\* op .. msgSig: the method, its arguments and its local variables;
\* seen: the value the first of checkHRS's two reads of a field found;
\* bak: save's copy bakPrivVal of the struct;
\* invoked: whether this call has invoked the Signer;
\* pre, preFile: the struct and the file as the call found them, kept in the
\* runs that audit "calls"
NoReq ==
    [op |-> "none", height |-> 0, round |-> 0, step |-> 0, kind |-> "",
     signBytes |-> NilBytes, sameHRS |-> FALSE, err |-> NoErr,
     sig |-> EmptySig, msgSig |-> EmptySig, invoked |-> FALSE,
     seen |-> 0, bak |-> ZeroPV,
     pre |-> ZeroPV, preFile |-> MarshalJSON(ZeroPV)]

\* the Signer backend's record, kept in the runs that audit "signer":
\* asked, askedBy: the (height, round, step) of its latest invocation and the
\*   goroutine that made it;
\* hrs, sigs, made: the highest (height, round, step) it produced a
\*   signature for, the messages it signed there and how many signatures it
\*   produced there;
\* regress: whether it ever produced a signature for a lower one than hrs
NoSigner == [asked |-> <<0, 0, 0>>, askedBy |-> "",
             hrs |-> <<0, 0, 0>>, sigs |-> {}, made |-> 0,
             regress |-> FALSE]

UpTo(n) == IF n < MaxCalls THEN n + 1 ELSE MaxCalls

SignerRecord(s, t, hrs, msg, ok) ==
    LET a == [s EXCEPT !.asked = hrs, !.askedBy = t]
    IN  IF "signer" \notin audit THEN s
        ELSE IF ~ok THEN a
        ELSE IF HRSLess(s.hrs, hrs)
        THEN [a EXCEPT !.hrs = hrs, !.sigs = {msg}, !.made = 1]
        ELSE IF hrs = s.hrs
        THEN [a EXCEPT !.sigs = s.sigs \cup {msg}, !.made = UpTo(s.made)]
        ELSE [a EXCEPT !.regress = TRUE]

PreStruct == IF "calls" \in audit THEN pv ELSE ZeroPV
PreFile == IF "calls" \in audit THEN file ELSE MarshalJSON(ZeroPV)

(* ------------------------------- Init --------------------------------- *)
\* LoadOrGenPrivValidatorFS on a path that does not exist: generate and Save
Start ==
    /\ pv = LoadOrGenPrivValidatorFS(FALSE, MarshalJSON(ZeroPV)).pv
    /\ file = LoadOrGenPrivValidatorFS(FALSE, MarshalJSON(ZeroPV)).file
    /\ mtx = Free
    /\ pc = [t \in Threads |-> "idle"]
    /\ req = [t \in Threads |-> NoReq]
    /\ proc = "running"
    /\ signer = NoSigner

Init == Start /\ audit = {}
InitSeq == Start /\ audit = {"calls"}
InitSign == Start /\ audit = {"calls", "signer"}

\* the process ends: memory and goroutines go
Down(reason) ==
    /\ proc' = reason
    /\ pv' = ZeroPV
    /\ mtx' = Free
    /\ pc' = [t \in Threads |-> "idle"]
    /\ req' = [t \in Threads |-> NoReq]

Goto(t, label) == pc' = [pc EXCEPT ![t] = label]

\* panic(reason) in goroutine t: its frames are unwound and the deferred
\* pv.mtx.Unlock() runs; the runtime ends the process afterwards (Exit), and
\* until then the other goroutines run
Panic(t, reason) ==
    /\ pc' = [pc EXCEPT ![t] = "exit"]
    /\ req' = [req EXCEPT ![t] = [NoReq EXCEPT !.op = "panic", !.err = reason]]
    /\ mtx' = IF mtx = t THEN Free ELSE mtx
    /\ UNCHANGED <<pv, proc>>

\* the runtime reports the panic of goroutine t and exits
Exit(t) ==
    /\ proc = "running"
    /\ pc[t] = "exit"
    /\ Down(req[t].err)
    /\ UNCHANGED <<file, signer, audit>>

(* ------------------------------ checkHRS ------------------------------ *)
\* a regression of one goes unnoticed
CompareOffByOne(first, second, asked) ==
    IF first > asked + 1 THEN "regression"
    ELSE IF second = asked THEN "equal" ELSE "ahead"

\* the equal case is missing: an equal value counts as ahead
CompareEqualAhead(first, second, asked) ==
    IF first > asked THEN "regression" ELSE "ahead"

\* >= for >: an equal value counts as a regression
CompareGeq(first, second, asked) ==
    IF first >= asked THEN "regression" ELSE "ahead"

\* no regression is ever reported
CompareNeverRegress(first, second, asked) ==
    IF second = asked THEN "equal" ELSE "ahead"

\* one field of checkHRS against the request's value: the field is read
\* once for the > test (first) and once more for the == test (second)
Compare(first, second, asked) ==
    IF first > asked THEN "regression"
    ELSE IF second = asked THEN "equal" ELSE "ahead"

\* the request's value and the struct's field a label of checkHRS is about
CheckLabels == {"checkHeight", "eqHeight", "checkRound", "eqRound",
                "checkStep", "eqStep"}
Asked(r, l) ==
    CASE l \in {"checkHeight", "eqHeight"} -> r.height
      [] l \in {"checkRound", "eqRound"} -> r.round
      [] OTHER -> r.step
Field(p, l) ==
    CASE l \in {"checkHeight", "eqHeight"} -> p.LastHeight
      [] l \in {"checkRound", "eqRound"} -> p.LastRound
      [] OTHER -> p.LastStep

\* checkHRS, one statement per step.  check*: the > test on a read of the
\* field; eq*: the == test, on a second read of the field or, where the
\* build keeps the first read in a register, on the value read first; then
\* pv.LastSignBytes != nil and pv.LastSignature.Empty()
checkHRS(t) ==
    /\ proc = "running"
    /\ pc[t] \in CheckLabels \cup {"checkLastSignBytes", "checkLastSignature"}
    /\ UNCHANGED <<file, signer, audit>>
    /\ LET r == req[t]
           l == pc[t]
           e == CASE l = "checkHeight" -> ErrHeight
                  [] l = "checkRound" -> ErrRound
                  [] OTHER -> ErrStep
           eq == CASE l = "checkHeight" -> "eqHeight"
                   [] l = "checkRound" -> "eqRound"
                   [] OTHER -> "eqStep"
           onEqual == CASE l = "eqHeight" -> "checkRound"
                        [] l = "eqRound" -> "checkStep"
                        [] OTHER -> "checkLastSignBytes"
       IN  CASE l \in {"checkHeight", "checkRound", "checkStep"} ->
                  /\ UNCHANGED <<pv, mtx, proc>>
                  /\ IF Compare(Field(pv, l), Field(pv, l), Asked(r, l)) = "regression"
                     THEN /\ req' = [req EXCEPT ![t].err = e]
                          /\ Goto(t, "return")
                     ELSE /\ req' = [req EXCEPT ![t].seen = Field(pv, l)]
                          /\ Goto(t, eq)
             [] l \in {"eqHeight", "eqRound", "eqStep"} ->
                  /\ UNCHANGED <<pv, mtx, proc>>
                  /\ req' = [req EXCEPT ![t].seen = 0]
                  /\ \E second \in {r.seen, Field(pv, l)} :
                        Goto(t, IF Compare(r.seen, second, Asked(r, l)) = "equal"
                                THEN onEqual ELSE "sign")
             [] l = "checkLastSignBytes" ->
                  /\ UNCHANGED <<pv, mtx, proc>>
                  /\ IF pv.LastSignBytes # NilBytes
                     THEN UNCHANGED req /\ Goto(t, "checkLastSignature")
                     ELSE /\ req' = [req EXCEPT ![t].err = ErrNoLast]
                          /\ Goto(t, "return")
             [] OTHER ->
                  IF pv.LastSignature = EmptySig
                  THEN Panic(t, "panic: LastSignature is nil but LastSignBytes is not")
                  ELSE /\ UNCHANGED <<pv, mtx, proc>>
                       /\ req' = [req EXCEPT ![t].sameHRS = TRUE]
                       /\ Goto(t, "bytesEqual")

(* ---------------------------- signBytesHRS ---------------------------- *)
\* bytes.Equal
bytesEqual(a, b) == a = b

\* the same-HRS branch: bytes.Equal, then checkFn, then return pv.LastSignature
sameHRSBranch(t) ==
    /\ proc = "running"
    /\ pc[t] \in {"bytesEqual", "checkFn", "returnLast"}
    /\ UNCHANGED <<file, signer, audit>>
    /\ LET r == req[t]
           fn == checkOnlyDifferByTimestamp(r.kind, pv.LastSignBytes, r.signBytes)
       IN  CASE pc[t] = "bytesEqual" ->
                  /\ UNCHANGED <<pv, mtx, proc, req>>
                  /\ Goto(t, IF bytesEqual(r.signBytes, pv.LastSignBytes)
                             THEN "returnLast" ELSE "checkFn")
             [] pc[t] = "checkFn" ->
                  IF fn = "panic"
                  THEN Panic(t, "panic: LastSignBytes cannot be unmarshalled")
                  ELSE /\ UNCHANGED <<pv, mtx, proc>>
                       /\ IF fn = "true"
                          THEN UNCHANGED req /\ Goto(t, "returnLast")
                          ELSE /\ req' = [req EXCEPT ![t].err = ErrConflict]
                               /\ Goto(t, "return")
             [] OTHER ->
                  /\ UNCHANGED <<pv, mtx, proc>>
                  /\ req' = [req EXCEPT ![t].sig = pv.LastSignature]
                  /\ Goto(t, "return")

\* a failed Sign still reaches saveSigned, with the empty signature
signBytesSavesOnError(t) ==
    /\ proc = "running"
    /\ pc[t] = "sign"
    /\ UNCHANGED <<pv, file, mtx, proc, audit>>
    /\ \E ok \in BOOLEAN :
          /\ signer' = SignerRecord(signer, t, ReqHRS(req[t]), req[t].signBytes, ok)
          /\ req' = [req EXCEPT ![t].invoked = TRUE,
                                ![t].err = IF ok THEN NoErr ELSE ErrSigner,
                                ![t].sig = IF ok THEN Sign(Key, req[t].signBytes)
                                           ELSE EmptySig]
          /\ Goto(t, "set1")

\* pv.Sign(signBytes): the backend signs, or fails
signBytes(t) ==
    /\ proc = "running"
    /\ pc[t] = "sign"
    /\ UNCHANGED <<pv, file, mtx, proc, audit>>
    /\ \E ok \in BOOLEAN :
          /\ signer' = SignerRecord(signer, t, ReqHRS(req[t]), req[t].signBytes, ok)
          /\ IF ok
             THEN /\ req' = [req EXCEPT ![t].invoked = TRUE,
                                        ![t].sig = Sign(Key, req[t].signBytes)]
                  /\ Goto(t, "set1")
             ELSE /\ req' = [req EXCEPT ![t].invoked = TRUE, ![t].err = ErrSigner]
                  /\ Goto(t, "return")

(* ------------------- the five field assignments ----------------------- *)
SetLabels == <<"set1", "set2", "set3", "set4", "set5">>
LabelIndex(l) == CHOOSE i \in 1..5 : SetLabels[i] = l
IsSetLabel(l) == \E i \in 1..5 : SetLabels[i] = l

\* the i-th assignment of saveSigned, Reset and ModifyLastHeight
Assign(p, i, v) ==
    CASE i = 1 -> [p EXCEPT !.LastHeight = v[1]]
      [] i = 2 -> [p EXCEPT !.LastRound = v[2]]
      [] i = 3 -> [p EXCEPT !.LastStep = v[3]]
      [] i = 4 -> [p EXCEPT !.LastSignature = v[4]]
      [] OTHER -> [p EXCEPT !.LastSignBytes = v[5]]

\* the signature is not stored
saveSignedNoSignature(r) == <<r.height, r.round, r.step, EmptySig, r.signBytes>>

\* the values saveSigned, Reset and ModifyLastHeight assign, in source order
saveSignedValues(r) == <<r.height, r.round, r.step, r.sig, r.signBytes>>
\* the sign bytes are not cleared
ResetKeepsSignBytes == <<0, 0, 0, EmptySig, pv.LastSignBytes>>

ResetValues == <<0, 0, 0, EmptySig, NilBytes>>

\* the step is left at its initial value instead of being pinned
ModifyLastHeightStepNone(h) == <<h, 0, 0, EmptySig, NilBytes>>

ModifyLastHeightValues(h) == <<h, 0, 3, EmptySig, NilBytes>>

\* saveSigned: the assignments in source order, then pv.save()
saveSigned(t) ==
    /\ proc = "running"
    /\ IsSetLabel(pc[t])
    /\ req[t].op \in SignOps
    /\ pv' = Assign(pv, LabelIndex(pc[t]), saveSignedValues(req[t]))
    /\ Goto(t, IF pc[t] = "set5" THEN "save" ELSE SetLabels[LabelIndex(pc[t]) + 1])
    /\ UNCHANGED <<file, mtx, req, proc, signer, audit>>

(* -------------------------- Save and save ----------------------------- *)
\* the mutex excludes nobody
LockIgnored(m) == TRUE

\* pv.mtx.Lock() returns once no goroutine holds the mutex
CanLock(m) == m = Free

\* pv.mtx.Lock() of Save, called directly or as the last statement of Reset
\* and ModifyLastHeight
Save(t) ==
    /\ proc = "running"
    /\ CanLock(mtx)
    /\ \/ /\ pc[t] = "idle"
          /\ req' = [req EXCEPT ![t] = [NoReq EXCEPT !.op = "Save", !.pre = PreStruct, !.preFile = PreFile]]
       \/ /\ pc[t] = "lock"
          /\ UNCHANGED req
    /\ mtx' = t
    /\ Goto(t, "save")
    /\ UNCHANGED <<pv, file, proc, signer, audit>>

\* the fields of the struct
FieldNames == {"LastHeight", "LastRound", "LastStep", "LastSignature",
               "LastSignBytes", "PrivKey", "oldPrivKey"}

\* save.  "save": bakPrivVal := *pv begins.  "write": the copy goes on (it is
\* a plain copy, field by field, and a field another goroutine assigns in the
\* meantime is copied with its value of before or of after), then the copy
\* is marshalled and replaces the file atomically; a write error is
\* PanicCrisis
save(t) ==
    /\ proc = "running"
    /\ pc[t] \in {"save", "write"}
    /\ UNCHANGED <<signer, audit>>
    /\ IF pc[t] = "save"
       THEN /\ req' = [req EXCEPT ![t].bak = pv]
            /\ Goto(t, "write")
            /\ UNCHANGED <<pv, file, mtx, proc>>
       ELSE \/ /\ \E f \in FieldNames :
                     /\ req[t].bak[f] # pv[f]
                     /\ req' = [req EXCEPT ![t].bak[f] = pv[f]]
               /\ UNCHANGED <<pv, file, mtx, pc, proc>>
            \/ \E written \in BOOLEAN :
                  IF written
                  THEN /\ file' = MarshalJSON(req[t].bak)
                       /\ req' = [req EXCEPT ![t].bak = ZeroPV]
                       /\ Goto(t, IF req[t].op \in SignOps THEN "return" ELSE "unlock")
                       /\ UNCHANGED <<pv, mtx, proc>>
                  ELSE /\ Panic(t, "panic: write failed")
                       /\ UNCHANGED file

(* ------------------------- the public methods ------------------------- *)
\* Reset: five assignments outside the mutex, then Save()
Reset(t) ==
    /\ proc = "running"
    /\ \/ /\ pc[t] = "idle"
          /\ req' = [req EXCEPT ![t] = [NoReq EXCEPT !.op = "Reset", !.pre = PreStruct, !.preFile = PreFile]]
          /\ pv' = Assign(pv, 1, ResetValues)
          /\ Goto(t, "set2")
       \/ /\ IsSetLabel(pc[t])
          /\ req[t].op = "Reset"
          /\ UNCHANGED req
          /\ pv' = Assign(pv, LabelIndex(pc[t]), ResetValues)
          /\ Goto(t, IF pc[t] = "set5" THEN "lock" ELSE SetLabels[LabelIndex(pc[t]) + 1])
    /\ UNCHANGED <<file, mtx, proc, signer, audit>>

\* ModifyLastHeight(h): five assignments outside the mutex, then Save()
ModifyLastHeight(t, heights) ==
    /\ proc = "running"
    /\ \/ /\ pc[t] = "idle"
          /\ \E h \in heights :
                /\ req' = [req EXCEPT ![t] = [NoReq EXCEPT !.op = "ModifyLastHeight",
                                                 !.height = h, !.pre = PreStruct, !.preFile = PreFile]]
                /\ pv' = Assign(pv, 1, ModifyLastHeightValues(h))
          /\ Goto(t, "set2")
       \/ /\ IsSetLabel(pc[t])
          /\ req[t].op = "ModifyLastHeight"
          /\ UNCHANGED req
          /\ pv' = Assign(pv, LabelIndex(pc[t]), ModifyLastHeightValues(req[t].height))
          /\ Goto(t, IF pc[t] = "set5" THEN "lock" ELSE SetLabels[LabelIndex(pc[t]) + 1])
    /\ UNCHANGED <<file, mtx, proc, signer, audit>>

\* SignVote up to the call of signBytesHRS: Lock, then the arguments, of which
\* voteToStep panics on a vote of unknown type
SignVote(t, votes) ==
    /\ proc = "running"
    /\ pc[t] = "idle"
    /\ CanLock(mtx)
    /\ \E vote \in votes :
          IF voteToStep(vote.Type) = PanicSanity
          THEN Panic(t, "panic: Unknown vote type")
          ELSE /\ req' = [req EXCEPT ![t] = [NoReq EXCEPT
                          !.op = "SignVote", !.height = vote.Height,
                          !.round = vote.Round,
                          !.step = voteToStep(vote.Type), !.kind = "vote",
                          !.signBytes = SignBytesVote(vote),
                          !.pre = PreStruct, !.preFile = PreFile]]
               /\ Goto(t, "checkHeight")
               /\ mtx' = t
               /\ UNCHANGED <<pv, proc>>
    /\ UNCHANGED <<file, signer, audit>>

\* SignProposal up to the call of signBytesHRS
SignProposal(t, proposals) ==
    /\ proc = "running"
    /\ pc[t] = "idle"
    /\ CanLock(mtx)
    /\ mtx' = t
    /\ \E proposal \in proposals :
          req' = [req EXCEPT ![t] = [NoReq EXCEPT
                     !.op = "SignProposal", !.height = proposal.Height,
                     !.round = proposal.Round, !.step = stepPropose,
                     !.kind = "proposal",
                     !.signBytes = SignBytesProposal(proposal), !.pre = PreStruct, !.preFile = PreFile]]
    /\ Goto(t, "checkHeight")
    /\ UNCHANGED <<pv, file, proc, signer, audit>>

\* SignVote / SignProposal after signBytesHRS: on success the message gets
\* the signature
signReturn(t) ==
    /\ proc = "running"
    /\ pc[t] = "return"
    /\ req' = [req EXCEPT ![t].msgSig = IF req[t].err = NoErr THEN req[t].sig
                                        ELSE req[t].msgSig]
    /\ Goto(t, "unlock")
    /\ UNCHANGED <<pv, file, mtx, proc, signer, audit>>

\* the heartbeat's height and round go through checkHRS first
SignHeartbeatChecked(t, heartbeats) ==
    /\ proc = "running"
    /\ pc[t] = "idle"
    /\ CanLock(mtx)
    /\ mtx' = t
    /\ \E heartbeat \in heartbeats :
          req' = [req EXCEPT ![t] = [NoReq EXCEPT
                     !.op = "SignHeartbeat", !.kind = "heartbeat",
                     !.height = heartbeat.Height, !.round = heartbeat.Round,
                     !.signBytes = SignBytesHeartbeat(heartbeat),
                     !.pre = PreStruct, !.preFile = PreFile]]
    /\ Goto(t, "checkHeight")
    /\ UNCHANGED <<pv, file, proc, signer, audit>>

\* SignHeartbeat: Lock, then heartbeat.Signature, err = pv.Sign(...)
SignHeartbeat(t, heartbeats) ==
    /\ proc = "running"
    /\ UNCHANGED <<pv, file, proc, signer, audit>>
    /\ \/ /\ pc[t] = "idle"
          /\ CanLock(mtx)
          /\ mtx' = t
          /\ \E heartbeat \in heartbeats :
                req' = [req EXCEPT ![t] = [NoReq EXCEPT
                           !.op = "SignHeartbeat", !.kind = "heartbeat",
                           !.signBytes = SignBytesHeartbeat(heartbeat),
                           !.pre = PreStruct, !.preFile = PreFile]]
          /\ Goto(t, "signHeartbeat")
       \/ /\ pc[t] = "signHeartbeat"
          /\ UNCHANGED mtx
          /\ \E ok \in BOOLEAN :
                req' = [req EXCEPT
                           ![t].invoked = TRUE,
                           ![t].err = IF ok THEN NoErr ELSE ErrSigner,
                           ![t].msgSig = IF ok THEN Sign(Key, req[t].signBytes)
                                         ELSE EmptySig]
          /\ Goto(t, "unlock")

\* the method returns without releasing the mutex
UnlockForgotten(t) ==
    /\ proc = "running"
    /\ pc[t] = "unlock"
    /\ Goto(t, "idle")
    /\ req' = [req EXCEPT ![t] = NoReq]
    /\ UNCHANGED <<pv, file, mtx, proc, signer, audit>>

\* the deferred pv.mtx.Unlock() and the return to the caller
Unlock(t) ==
    /\ proc = "running"
    /\ pc[t] = "unlock"
    /\ mtx' = Free
    /\ Goto(t, "idle")
    /\ req' = [req EXCEPT ![t] = NoReq]
    /\ UNCHANGED <<pv, file, proc, signer, audit>>

\* the exported field PrivKey is assigned by the code that installs another
\* Signer: cleared, or set to another key
LiveKeys == {Key, EmptyKey, "priv1"}

SetPrivKey(t, keys) ==
    /\ proc = "running"
    /\ pc[t] = "idle"
    /\ \E k \in keys \ {pv.PrivKey} : pv' = [pv EXCEPT !.PrivKey = k]
    /\ UNCHANGED <<file, mtx, pc, req, proc, signer, audit>>

(* ------------------------- the process itself ------------------------- *)
\* the process is killed at any point
Crash ==
    /\ proc = "running"
    /\ Down("killed")
    /\ UNCHANGED <<file, signer, audit>>

\* the process is started again: LoadOrGenPrivValidatorFS finds the file
Restart ==
    /\ proc # "running"
    /\ proc' = "running"
    /\ pv' = LoadOrGenPrivValidatorFS(TRUE, file).pv
    /\ file' = LoadOrGenPrivValidatorFS(TRUE, file).file
    /\ UNCHANGED <<mtx, pc, req, signer, audit>>

(* --------------------------- specifications --------------------------- *)
\* the steps inside a method, whatever its arguments were
Body(t) ==
    \/ checkHRS(t) \/ sameHRSBranch(t) \/ signBytes(t) \/ saveSigned(t)
    \/ Save(t) \/ save(t) \/ signReturn(t) \/ Unlock(t) \/ Exit(t)

\* one caller at a time, every method, every argument, and the process dying
\* and being started again
NextSeq ==
    \/ SignVote("g1", Votes \cup BadVotes) \/ SignProposal("g1", Proposals)
    \/ SignHeartbeat("g1", Heartbeats)
    \/ Reset("g1") \/ ModifyLastHeight("g1", Heights)
    \/ Body("g1")
    \/ Crash \/ Restart
SpecSeq == InitSeq /\ [][NextSeq]_vars

\* one caller as above, and the live key replaced between the calls
NextKey ==
    \/ NextSeq
    \/ SetPrivKey("g1", LiveKeys)
SpecKey == InitSeq /\ [][NextKey]_vars

\* one validator instance used by two goroutines through the methods that
\* take the mutex before they touch the struct; the Signer backend is audited
NextSign ==
    \E t \in Threads :
        \/ SignVote(t, Votes \cup BadVotes) \/ SignProposal(t, Proposals)
        \/ SignHeartbeat(t, Heartbeats)
        \/ Body(t)
SpecSign == InitSign /\ [][NextSign]_vars

\* two goroutines, every method: the arguments are those of one height and
\* one round, so that the interleavings of the unlocked assignments of Reset
\* and ModifyLastHeight with the other methods are all explored
RaceVotes == {v \in Votes : v.Height = 1 /\ v.Round = 0 /\ v.Timestamp = "10:00"}
RaceProposals == {p \in Proposals : p.Height = 1 /\ p.Round = 0 /\ p.Timestamp = "10:00"}
RaceHeartbeats == {h \in Heartbeats : h.Height = 1}
RaceHeights == {1}

Next ==
    \/ \E t \in Threads :
          \/ SignVote(t, RaceVotes \cup BadVotes) \/ SignProposal(t, RaceProposals)
          \/ SignHeartbeat(t, RaceHeartbeats)
          \/ Reset(t) \/ ModifyLastHeight(t, RaceHeights)
          \/ Body(t)
    \/ Crash \/ Restart
Spec == Init /\ [][Next]_vars

\* a step of a call in progress.  The Go scheduler runs every runnable
\* goroutine, and sync.Mutex hands the mutex to a goroutine that has waited
\* for it (starvation mode), so a call that can step again and again does.
Step(t) ==
    /\ pc[t] # "idle"
    /\ \/ Body(t) \/ Reset(t) \/ ModifyLastHeight(t, RaceHeights)
       \/ SignHeartbeat(t, RaceHeartbeats)

\* two goroutines, every method, the messages of one block
LiveVotes == {v \in RaceVotes : v.BlockID = "A"}
LiveProposals == {p \in RaceProposals : p.BlockID = "A"}

NextLive ==
    \/ \E t \in Threads :
          \/ SignVote(t, LiveVotes \cup BadVotes) \/ SignProposal(t, LiveProposals)
          \/ SignHeartbeat(t, RaceHeartbeats)
          \/ Reset(t) \/ ModifyLastHeight(t, RaceHeights)
          \/ Body(t)
    \/ Crash \/ Restart
SpecLive == Init /\ [][NextLive]_vars /\ \A t \in Threads : SF_vars(Step(t))

(* ------------------------------- claims ------------------------------- *)
\* a SignVote / SignProposal call about to return to its caller
Returning(t) == pc[t] = "unlock" /\ req[t].op \in SignOps

\* the SigningState fields of a struct, and of a file
State(p) == <<p.LastHeight, p.LastRound, p.LastStep, p.LastSignBytes, p.LastSignature>>
FileState(f) == <<f.last_height, f.last_round, f.last_step, f.last_signbytes,
                  f.last_signature>>
FileHRS(f) == <<f.last_height, f.last_round, f.last_step>>

\* C1 as the spec states it (SpecSign): for any (height, round, step) the
\* Signer backend is invoked at most once (no goroutine stands at pv.Sign for
\* the triple of the backend's latest invocation), it never signs two
\* messages there, and every successful call for it returns that one signature.
C1_InvokedAtMostOnce ==
    /\ \A t \in Threads : pc[t] = "sign" => signer.asked # ReqHRS(req[t])
    /\ ~signer.regress
    /\ Cardinality(signer.sigs) <= 1
    /\ \A t \in Threads :
          Returning(t) /\ req[t].err = NoErr
          => /\ ReqHRS(req[t]) = signer.hrs
             /\ \A m \in signer.sigs : req[t].msgSig = Sign(Key, m)

\* C1 amended (SpecSign): for any (height, round, step) the Signer backend
\* produces at most one signature (an invocation that failed may be repeated),
\* signatures are produced at strictly increasing (height, round, step), and
\* every successful SignVote / SignProposal call for the latest one returns
\* exactly that signature.
C1_OneSignaturePerHRS ==
    /\ signer.made <= 1
    /\ ~signer.regress
    /\ Cardinality(signer.sigs) <= 1
    /\ \A t \in Threads :
          Returning(t) /\ req[t].err = NoErr
          => /\ ReqHRS(req[t]) = signer.hrs
             /\ signer.sigs # {}
             /\ \A m \in signer.sigs : req[t].msgSig = Sign(Key, m)

\* a call answered from the stored signature although its bytes carry another
\* timestamp than the bytes the backend signed
C1_Witness ==
    \E t \in Threads :
        /\ Returning(t) /\ req[t].err = NoErr /\ req[t].sameHRS
        /\ signer.made = 1
        /\ req[t].signBytes \notin signer.sigs
        /\ req[t].msgSig # EmptySig

\* a SignVote / SignProposal call in progress
InSign(t) == pc[t] # "idle" /\ req[t].op \in SignOps

\* the call has touched nothing: no Signer invocation, the message unsigned
\* so far as the call failed, struct and file as it found them
Untouched(t) ==
    /\ ~req[t].invoked
    /\ State(pv) = State(req[t].pre)
    /\ file = req[t].preFile

NonTimestampFields(b) == <<b.kind, b.height, b.round, b.type, b.block>>

RegressionError(r) ==
    IF r.height < r.pre.LastHeight THEN ErrHeight
    ELSE IF r.round < r.pre.LastRound THEN ErrRound
    ELSE ErrStep

\* C2 (SpecSeq): a SignVote / SignProposal call whose (height, round, step) is
\* below the last one in height, else in round, else in step, never reaches the
\* Signer or an assignment, leaves struct and file as they were, and returns
\* the height, round or step regression error with the message unsigned.
C2_RegressionRejected ==
    \A t \in Threads :
        InSign(t) /\ HRSLess(ReqHRS(req[t]), HRS(req[t].pre))
        => /\ Untouched(t)
           /\ pc[t] \in {"checkHeight", "eqHeight", "checkRound", "eqRound",
                         "checkStep", "return", "unlock"}
           /\ pc[t] = "unlock" => /\ req[t].err = RegressionError(req[t])
                                  /\ req[t].msgSig = EmptySig

\* a round regression (equal height) is being returned
C2_Witness ==
    \E t \in Threads :
        /\ Returning(t) /\ req[t].err = ErrRound
        /\ req[t].height = req[t].pre.LastHeight
        /\ req[t].pre.LastSignBytes # NilBytes

\* C3 (SpecSeq): a call for the last (height, round, step) with sign bytes
\* byte-identical to LastSignBytes returns exactly LastSignature, never
\* invokes the Signer and leaves struct and file as they were.
C3_ReplayReturnsStored ==
    \A t \in Threads :
        /\ InSign(t) /\ ReqHRS(req[t]) = HRS(req[t].pre)
        /\ req[t].signBytes = req[t].pre.LastSignBytes
        => /\ Untouched(t)
           /\ req[t].err = NoErr
           /\ pc[t] = "unlock" => /\ req[t].msgSig = req[t].pre.LastSignature
                                  /\ req[t].msgSig = Sign(Key, req[t].signBytes)

C3_Witness ==
    \E t \in Threads :
        /\ Returning(t) /\ ReqHRS(req[t]) = HRS(req[t].pre)
        /\ req[t].signBytes = req[t].pre.LastSignBytes
        /\ req[t].msgSig = req[t].pre.LastSignature

\* C4 (SpecSeq): a call for the last (height, round, step), already signed,
\* whose sign bytes differ from LastSignBytes in a field other than the
\* timestamp returns the conflicting-data error, never invokes the Signer,
\* leaves the message unsigned and struct and file as they were.
C4_ConflictRejected ==
    \A t \in Threads :
        /\ InSign(t) /\ ReqHRS(req[t]) = HRS(req[t].pre)
        /\ req[t].pre.LastSignBytes # NilBytes
        /\ NonTimestampFields(req[t].signBytes)
              # NonTimestampFields(req[t].pre.LastSignBytes)
        => /\ Untouched(t)
           /\ req[t].msgSig = EmptySig
           /\ pc[t] \notin {"returnLast", "sign"}
           /\ pc[t] = "unlock" => req[t].err = ErrConflict

C4_Witness ==
    \E t \in Threads :
        /\ Returning(t) /\ req[t].err = ErrConflict
        /\ req[t].signBytes.ts = req[t].pre.LastSignBytes.ts
        /\ req[t].signBytes.block # req[t].pre.LastSignBytes.block

\* C5 (SpecSeq): a call for the last (height, round, step), already signed,
\* whose sign bytes differ from LastSignBytes in the timestamp only returns
\* LastSignature, never invokes the Signer, and LastSignBytes (with the rest
\* of struct and file) stays the bytes signed first.
C5_TimestampOnlyReturnsStored ==
    \A t \in Threads :
        /\ InSign(t) /\ ReqHRS(req[t]) = HRS(req[t].pre)
        /\ req[t].signBytes # req[t].pre.LastSignBytes
        /\ NonTimestampFields(req[t].signBytes)
              = NonTimestampFields(req[t].pre.LastSignBytes)
        => /\ Untouched(t)
           /\ req[t].err = NoErr
           /\ pv.LastSignBytes = req[t].pre.LastSignBytes
           /\ pc[t] = "unlock" => /\ req[t].msgSig = req[t].pre.LastSignature
                                  /\ req[t].msgSig # Sign(Key, req[t].signBytes)
                                  /\ req[t].msgSig # EmptySig

C5_Witness ==
    \E t \in Threads :
        /\ Returning(t) /\ req[t].sameHRS /\ req[t].err = NoErr
        /\ req[t].signBytes.ts # pv.LastSignBytes.ts
        /\ req[t].msgSig = Sign(Key, pv.LastSignBytes)

\* what saveSigned leaves in the struct for a call
Committed(r) ==
    <<r.height, r.round, r.step, r.signBytes, Sign(Key, r.signBytes)>>

\* C6 as the spec states it (SpecSeq): a call whose (height, round, step) is
\* strictly above the last one succeeds by invoking the Signer, and struct
\* and file then hold exactly the call's values.
C6_GreaterAlwaysSucceeds ==
    \A t \in Threads :
        Returning(t) /\ HRSLess(HRS(req[t].pre), ReqHRS(req[t]))
        => /\ req[t].invoked
           /\ req[t].err = NoErr
           /\ req[t].msgSig = Sign(Key, req[t].signBytes)
           /\ State(pv) = Committed(req[t])
           /\ FileState(file) = Committed(req[t])

\* C6 amended (SpecSeq): such a call always invokes the Signer; it fails only
\* with the Signer's own error, and then struct and file are as it found
\* them; otherwise it succeeds and struct and file hold exactly its values.
C6_GreaterSignsAndCommits ==
    \A t \in Threads :
        Returning(t) /\ HRSLess(HRS(req[t].pre), ReqHRS(req[t]))
        => /\ req[t].invoked
           /\ req[t].err \in {NoErr, ErrSigner}
           /\ req[t].err = ErrSigner
                => /\ State(pv) = State(req[t].pre)
                   /\ file = req[t].preFile
                   /\ req[t].msgSig = EmptySig
           /\ req[t].err = NoErr
                => /\ req[t].msgSig = Sign(Key, req[t].signBytes)
                   /\ State(pv) = Committed(req[t])
                   /\ FileState(file) = Committed(req[t])

\* a higher round with a lower step than the last one was signed
C6_Witness ==
    \E t \in Threads :
        /\ Returning(t) /\ req[t].err = NoErr /\ req[t].invoked
        /\ req[t].height = req[t].pre.LastHeight
        /\ req[t].round > req[t].pre.LastRound
        /\ req[t].step < req[t].pre.LastStep
        /\ State(pv) = Committed(req[t])

\* C7 as the spec states it (SpecSign): of two goroutines asking for the same
\* (height, round, step) above the last one, exactly one takes the strictly-
\* greater path and invokes the Signer; the other never reaches the Signer.
C7_ExactlyOneInvokes ==
    \A t \in Threads :
        pc[t] = "sign" /\ signer.askedBy \notin {"", t}
        => signer.asked # ReqHRS(req[t])

\* C7 amended (SpecSign): the calls are serialized by the mutex (a call in
\* progress holds it); a goroutine takes the strictly-greater path only for a
\* (height, round, step) the Signer has produced no signature for, so at most
\* one invocation for it returns a signature (after a failed invocation the
\* next request invokes the Signer again); and a request carrying the bytes
\* that were signed gets that signature without a conflict error, from the
\* Signer if it is the one that invoked it and else from the same-HRS branch.
C7_SerializedOneSigns ==
    /\ \A t \in Threads : pc[t] \notin {"idle", "exit"} => mtx = t
    /\ \A t \in Threads : pc[t] = "sign" => HRSLess(signer.hrs, ReqHRS(req[t]))
    /\ signer.made <= 1
    /\ \A t \in Threads :
          /\ Returning(t) /\ ReqHRS(req[t]) = signer.hrs
          /\ req[t].signBytes \in signer.sigs
          => /\ req[t].err = NoErr
             /\ req[t].msgSig = Sign(Key, req[t].signBytes)
             /\ req[t].invoked => /\ signer.asked = signer.hrs
                                  /\ signer.askedBy = t
                                  /\ ~req[t].sameHRS
             /\ ~req[t].invoked => req[t].sameHRS

\* the second goroutine is handed the signature the first one obtained
C7_Witness ==
    \E t \in Threads :
        /\ Returning(t) /\ req[t].sameHRS /\ ~req[t].invoked
        /\ signer.askedBy \notin {"", t}
        /\ signer.asked = signer.hrs
        /\ ReqHRS(req[t]) = signer.hrs
        /\ signer.sigs = {req[t].signBytes}
        /\ req[t].msgSig = Sign(Key, req[t].signBytes)

\* between its first access to the SigningState and the end of its save
InCritical(t) == pc[t] \notin {"idle", "unlock", "exit"}

\* C8 (Spec): a method holds the mutex from before its first access to the
\* SigningState until its save is over, and no two methods are in that
\* stretch at once.
C8_MutexHeldThroughout ==
    \A t \in Threads :
        InCritical(t) => /\ mtx = t
                         /\ \A u \in Threads \ {t} : ~InCritical(u)

\* C9 (SpecSign): when SignVote / SignProposal returns a signature it has
\* just obtained from the Signer, the file holds exactly that call's height,
\* round, step, sign bytes and signature; and whenever a call returns a
\* signature, the file is not older than the call's (height, round, step), so
\* that a reload after a crash is not older than a released signature.
C9_PersistedBeforeReturn ==
    \A t \in Threads :
        Returning(t) /\ req[t].err = NoErr
        => /\ req[t].invoked => FileState(file) = Committed(req[t])
           /\ HRSLeq(ReqHRS(req[t]), FileHRS(file))

\* C10 as the spec states it (SpecSeq): no operation ever moves the triple
\* (last_height, last_round, last_step), as the operations persist it, to a
\* smaller value.
C10_NeverDecreases ==
    [][HRSLeq(FileHRS(file), FileHRS(file'))]_vars

\* C10 amended (SpecSeq): the persisted triple moves to a smaller value only
\* while a Reset or a ModifyLastHeight call is in progress (SignVote,
\* SignProposal, SignHeartbeat and Save never lower it on their own), and
\* between calls the triple in memory is the persisted one.
C10_OnlyResetAndModifyLower ==
    [][/\ HRSLess(FileHRS(file'), FileHRS(file))
          => \E t \in Threads : /\ pc[t] # "idle"
                                /\ req[t].op \in {"Reset", "ModifyLastHeight"}
       /\ (proc = "running" /\ \A t \in Threads : pc[t] = "idle")
          => HRS(pv) = FileHRS(file)]_vars

\* ModifyLastHeight has persisted a triple below the one it found
C10_Witness ==
    \E t \in Threads :
        /\ pc[t] = "unlock" /\ req[t].op = "ModifyLastHeight"
        /\ FileHRS(file) = <<req[t].height, 0, stepPrecommit>>
        /\ HRSLess(FileHRS(file), FileHRS(req[t].preFile))

\* LastSignBytes is present exactly when LastSignature is, in a struct, in a file
Consistent(p) == (p.LastSignBytes # NilBytes) <=> (p.LastSignature # EmptySig)
FileConsistent(f) == (f.last_signbytes # NilBytes) <=> (f.last_signature # EmptySig)

\* no call is in progress in the running process
Quiescent == proc = "running" /\ \A t \in Threads : pc[t] = "idle"

\* C11 (Spec): whatever the interleaving of the methods, the struct between
\* calls and the file at any time hold sign bytes exactly when they hold a
\* signature, and checkHRS never meets sign bytes without a signature: its
\* panic is not reached.
C11_BytesIffSignature ==
    /\ proc # "panic: LastSignature is nil but LastSignBytes is not"
    /\ FileConsistent(file)
    /\ Quiescent => Consistent(pv)

\* C12 (SpecSeq): a SignHeartbeat call goes from the Lock straight to the
\* Signer, whatever the last height, round and step are: it never enters
\* checkHRS, fails only with the Signer's own error, hands the heartbeat the
\* Signer's signature, and leaves struct and file as it found them.
C12_HeartbeatUnconditional ==
    \A t \in Threads :
        pc[t] # "idle" /\ req[t].op = "SignHeartbeat"
        => /\ pc[t] \in {"signHeartbeat", "unlock"}
           /\ State(pv) = State(req[t].pre)
           /\ file = req[t].preFile
           /\ pc[t] = "unlock"
                => /\ req[t].invoked
                   /\ req[t].err \in {NoErr, ErrSigner}
                   /\ req[t].err = NoErr
                        => req[t].msgSig = Sign(Key, req[t].signBytes)

\* a heartbeat of a height below the last signed one has been signed
C12_Witness ==
    \E t \in Threads :
        /\ pc[t] = "unlock" /\ req[t].op = "SignHeartbeat"
        /\ req[t].err = NoErr
        /\ req[t].signBytes.height < req[t].pre.LastHeight
        /\ req[t].pre.LastSignBytes # NilBytes
        /\ req[t].msgSig = Sign(Key, req[t].signBytes)

\* the SigningState ModifyLastHeight(h) is specified to leave
FastForwarded(h) == <<h, 0, stepPrecommit, NilBytes, EmptySig>>

\* the call found the struct as a ModifyLastHeight left it
AfterModify(r) == r.pre.LastHeight >= 1 /\ State(r.pre) = FastForwarded(r.pre.LastHeight)

\* what spec.md prescribes for a request on that state: the error of its
\* rejection, or NoErr where it is to be signed
ModifyVerdict(r) ==
    IF r.height < r.pre.LastHeight THEN ErrHeight
    ELSE IF r.height > r.pre.LastHeight \/ r.round > 0 THEN NoErr
    ELSE IF r.step < stepPrecommit THEN ErrStep
    ELSE ErrNoLast

\* C13 as the spec states it (SpecSeq): ModifyLastHeight(h) leaves struct and
\* file at (h, 0, Precommit, no bytes, no signature); on that state a request
\* below h gets the height regression error, a request at (h, 0) is rejected
\* (with the step regression error if it is a proposal or a prevote), and a
\* request at h with a round above 0, or above h, succeeds.
C13_ModifyThenSucceeds ==
    /\ \A t \in Threads :
          pc[t] = "unlock" /\ req[t].op = "ModifyLastHeight"
          => /\ State(pv) = FastForwarded(req[t].height)
             /\ FileState(file) = FastForwarded(req[t].height)
    /\ \A t \in Threads :
          Returning(t) /\ AfterModify(req[t])
          => /\ req[t].err = ModifyVerdict(req[t])
             /\ req[t].err # NoErr => Untouched(t) /\ req[t].msgSig = EmptySig
             /\ req[t].err = NoErr => /\ req[t].msgSig = Sign(Key, req[t].signBytes)
                                      /\ State(pv) = Committed(req[t])
                                      /\ FileState(file) = Committed(req[t])

\* C13 amended (SpecSeq): as above, but a request at h with a round above 0,
\* or above h, passes the guard and invokes the Signer: it succeeds when the
\* Signer returns a signature, and fails with the Signer's error, the state
\* untouched, when the Signer fails.
C13_ModifyThenGuards ==
    /\ \A t \in Threads :
          pc[t] = "unlock" /\ req[t].op = "ModifyLastHeight"
          => /\ State(pv) = FastForwarded(req[t].height)
             /\ FileState(file) = FastForwarded(req[t].height)
    /\ \A t \in Threads :
          Returning(t) /\ AfterModify(req[t])
          => /\ req[t].invoked <=> ModifyVerdict(req[t]) = NoErr
             /\ ~req[t].invoked => req[t].err = ModifyVerdict(req[t])
             /\ req[t].invoked => req[t].err \in {NoErr, ErrSigner}
             /\ req[t].err # NoErr
                  => /\ State(pv) = State(req[t].pre)
                     /\ file = req[t].preFile
                     /\ req[t].msgSig = EmptySig
             /\ req[t].err = NoErr => /\ req[t].msgSig = Sign(Key, req[t].signBytes)
                                      /\ State(pv) = Committed(req[t])
                                      /\ FileState(file) = Committed(req[t])

\* after ModifyLastHeight(h) a prevote at (h, 0) is refused as a step
\* regression
C13_Witness ==
    \E t \in Threads :
        /\ Returning(t) /\ AfterModify(req[t])
        /\ req[t].height = req[t].pre.LastHeight /\ req[t].round = 0
        /\ req[t].step = stepPrevote
        /\ req[t].err = ErrStep
        /\ FileState(file) = FastForwarded(req[t].height)

\* C14 (SpecSign): a SignVote / SignProposal call whose Signer invocation
\* failed returns the Signer's error with the message unsigned, struct and
\* file as the call found them and the last (height, round, step) still below
\* the request's, so that the same request takes the Signer path again; and no
\* call returns the Signer's error without having invoked the Signer.
C14_SignerFailureLeavesState ==
    \A t \in Threads :
        /\ Returning(t) /\ req[t].err = ErrSigner
             => /\ req[t].invoked
                /\ ~req[t].sameHRS
                /\ req[t].msgSig = EmptySig
                /\ State(pv) = State(req[t].pre)
                /\ file = req[t].preFile
                /\ HRSLess(HRS(pv), ReqHRS(req[t]))
                /\ HRSLess(signer.hrs, signer.asked)
        /\ InSign(t) /\ req[t].invoked /\ pc[t] \in {"return", "unlock"}
           /\ HRSLess(signer.hrs, signer.asked)
             => req[t].err = ErrSigner

\* the retry of a request whose Signer invocation failed stands at pv.Sign
\* again, the state being what it was before the failed call
C14_Witness ==
    \E t \in Threads :
        /\ pc[t] = "sign" /\ req[t].op \in SignOps
        /\ signer.asked = ReqHRS(req[t])
        /\ HRSLess(signer.hrs, signer.asked)
        /\ HRS(pv) = signer.hrs
        /\ pv.LastSignBytes # NilBytes

\* the SigningState of a validator that has signed nothing
InitialState == <<0, 0, stepNone, NilBytes, EmptySig>>

\* C15 (SpecSeq): Reset leaves struct and file at height 0, round 0, step
\* None, no sign bytes and no signature, the key in the file being the one it
\* was; and a Reset of the state a Reset leaves changes nothing, in the
\* struct and in the file.
C15_ResetIdempotent ==
    \A t \in Threads :
        pc[t] = "unlock" /\ req[t].op = "Reset"
        => /\ State(pv) = InitialState
           /\ FileState(file) = InitialState
           /\ file.priv_key = req[t].preFile.priv_key
           /\ State(req[t].pre) = InitialState /\ FileState(req[t].preFile) = InitialState
                => pv = req[t].pre /\ file = req[t].preFile

\* a Reset has run on the state a Reset leaves, and left it
C15_Witness ==
    \E t \in Threads :
        /\ pc[t] = "unlock" /\ req[t].op = "Reset"
        /\ State(req[t].pre) = InitialState
        /\ FileState(req[t].preFile) = InitialState
        /\ pv = req[t].pre /\ file = req[t].preFile

\* C16 (SpecSeq): the process starts with the generated validator saved; a
\* start on the existing file leaves the file as it is and yields its height,
\* round, step, sign bytes, signature and key; and between calls the struct
\* holds what the file holds, so that the state after a restart is the one
\* the last completed operation persisted.
C16_RestartLoadsPersisted ==
    [][/\ (proc # "running" /\ proc' = "running")
          => /\ file' = file
             /\ State(pv') = FileState(file)
             /\ pv'.PrivKey = file.priv_key
             /\ pv'.oldPrivKey = file.priv_key
       /\ Quiescent => State(pv) = FileState(file)]_vars

\* the process went down with a signature persisted: the file a restart finds
C16_Witness ==
    /\ proc = "killed"
    /\ file.last_signbytes # NilBytes
    /\ file.last_signature = Sign(Key, file.last_signbytes)
    /\ FileHRS(file) = BytesHRS(file.last_signbytes)

\* C19 (SpecKey): every save (of Save, of a signing call, of Reset, of
\* ModifyLastHeight) writes the key provisioned at generation or load, whatever
\* the live PrivKey is, together with the struct's height, round, step, sign
\* bytes and signature, and changes nothing in the struct; so the file holds
\* the provisioned key at all times.
C19_SaveEscrowsKey ==
    [][/\ \A t \in Threads :
             pc[t] = "write" /\ pc'[t] \notin {"write", "exit"} /\ proc' = "running"
             => /\ pv' = pv
                /\ pv.oldPrivKey # EmptyKey => file'.priv_key = pv.oldPrivKey
                /\ FileState(file') = State(pv)
       /\ proc = "running" /\ pv.oldPrivKey # EmptyKey
             => file.priv_key = pv.oldPrivKey]_vars

\* a signing call has persisted its signature while the live key was cleared
C19_Witness ==
    \E t \in Threads :
        /\ pc[t] = "return" /\ req[t].op \in SignOps /\ req[t].invoked
        /\ req[t].err = NoErr
        /\ pv.PrivKey = EmptyKey
        /\ pv.oldPrivKey = Key
        /\ file.priv_key = Key
        /\ FileState(file) = Committed(req[t])

\* C17 (Spec): a start never turns a file that holds sign bytes without a
\* signature, or a signature without sign bytes, into a running validator.
C17_InconsistentFileNeverLoaded ==
    [][proc # "running" /\ ~FileConsistent(file) => proc' # "running"]_vars

\* C18 (SpecSeq): a SignVote / SignProposal call for the last (height, round,
\* step) that finds no LastSignBytes returns the "No LastSignature found"
\* error from checkHRS: it never invokes the Signer, leaves the message
\* unsigned and struct and file as they were, so that every retry meets the
\* same state; a precommit at (h, 0) after ModifyLastHeight(h) is such a call.
C18_NoPriorSignatureRejected ==
    \A t \in Threads :
        /\ InSign(t) /\ ReqHRS(req[t]) = HRS(req[t].pre)
        /\ req[t].pre.LastSignBytes = NilBytes
        => /\ Untouched(t)
           /\ req[t].msgSig = EmptySig
           /\ ~req[t].sameHRS
           /\ pc[t] \in CheckLabels \cup {"checkLastSignBytes", "return", "unlock"}
           /\ pc[t] \in {"return", "unlock"} => req[t].err = ErrNoLast

\* the precommit at (h, 0) after ModifyLastHeight(h) has been rejected
C18_Witness ==
    \E t \in Threads :
        /\ Returning(t) /\ AfterModify(req[t])
        /\ ReqHRS(req[t]) = <<req[t].pre.LastHeight, 0, stepPrecommit>>
        /\ req[t].err = ErrNoLast
        /\ State(pv) = FastForwarded(req[t].height)

\* C20 (SpecLive): a goroutine holds the mutex only inside a call and never
\* while it waits for it, and every call in progress (SignVote, SignProposal,
\* SignHeartbeat, Reset, ModifyLastHeight, Save) comes to its end, the Signer
\* returning each time it is invoked.
C20_EveryCallCompletes ==
    /\ [](\A t \in Threads : mtx = t => pc[t] \notin {"idle", "lock"})
    /\ \A t \in Threads : (pc[t] # "idle") ~> (pc[t] = "idle")

\* a Reset or ModifyLastHeight waits in Save for the mutex another goroutine
\* holds while it is in the Signer
C20_Witness ==
    \E t, u \in Threads :
        /\ pc[t] = "lock" /\ mtx = u /\ u # t
        /\ pc[u] = "sign"

====
